---------------------------- MODULE Spec2Model ----------------------------
(***************************************************************************)
(* A model of olap_visualization.py: one page load of the OLAP dashboard   *)
(* (load the warehouse, select an operation, run its aggregation routine)  *)
(* and sessions of several page loads.                                     *)
(*                                                                         *)
(* A table (a DataFrame) is a record [columns, rows]: the set of column    *)
(* names and the sequence of rows, each row a function from the column     *)
(* names to cell values.  Text that the code formats or parses (the        *)
(* period labels of Roll-Up) is a sequence of character codes.  Measures   *)
(* are integers and sums are exact.                                        *)
(***************************************************************************)
EXTENDS Integers, Sequences, FiniteSets, TLC

(***************************************************************************)
(* Bounds of the model.                                                    *)
(***************************************************************************)
\* revenue of one order ranges over 1..MaxRev
MaxRev == 2
\* orders in a small warehouse, and orders by which a full one deviates
MaxOrders == 2
\* connection / computation failures are explored over fact tables of at
\* most FaultRows rows
FaultRows == 1
\* page loads in one session
MaxRuns == 3

(***************************************************************************)
(* Program constants.                                                      *)
(***************************************************************************)
\* country_category_sales.nlargest(5, 'total_sum_usd')
TopDice == 5
\* employee_sales.nlargest(3, 'total_sum_usd')
TopSlice == 3

\* None, where a table is expected
None == [none |-> TRUE]
\* a widget that has not been evaluated
Unset == "unset"

(***************************************************************************)
(* Generic helpers.                                                        *)
(***************************************************************************)
RECURSIVE SumSeq(_)
SumSeq(s) == IF Len(s) = 0 THEN 0 ELSE Head(s) + SumSeq(Tail(s))

Range(s) == {s[i] : i \in DOMAIN s}

\* lexicographic order on sequences of integers (Python's str / tuple order)
RECURSIVE LexLess(_, _)
LexLess(a, b) ==
    IF b = <<>> THEN FALSE
    ELSE IF a = <<>> THEN TRUE
    ELSE IF Head(a) # Head(b) THEN Head(a) < Head(b)
    ELSE LexLess(Tail(a), Tail(b))

(***************************************************************************)
(* Text: str(), strftime, str.replace and the parsing of pd.to_datetime.   *)
(***************************************************************************)
ChSpace == 32
ChDash == 45
ChZero == 48
ChQ == 81

RECURSIVE Str(_)
\* str(n) for n >= 0: the decimal digits
Str(n) == IF n < 10 THEN <<ChZero + n>> ELSE Str(n \div 10) \o <<ChZero + (n % 10)>>

\* %m and %d of strftime: two digits, zero padded
Pad2(n) == IF n < 10 THEN <<ChZero>> \o Str(n) ELSE Str(n)

RECURSIVE Num(_)
\* int() of a sequence of digits
Num(s) == IF s = <<>> THEN 0 ELSE 10 * Num(SubSeq(s, 1, Len(s) - 1)) + (s[Len(s)] - ChZero)

RECURSIVE Replace(_, _, _)
\* str.replace(old, new): every occurrence, left to right
Replace(s, old, new) ==
    IF Len(s) < Len(old) THEN s
    ELSE IF SubSeq(s, 1, Len(old)) = old
         THEN new \o Replace(SubSeq(s, Len(old) + 1, Len(s)), old, new)
         ELSE <<Head(s)>> \o Replace(Tail(s), old, new)

RECURSIVE Split(_, _)
\* str.split(sep) for a one character separator
Split(s, sep) ==
    IF \A i \in DOMAIN s : s[i] # sep THEN <<s>>
    ELSE LET i == CHOOSE k \in DOMAIN s : s[k] = sep /\ \A j \in 1..(k - 1) : s[j] # sep
         IN  <<SubSeq(s, 1, i - 1)>> \o Split(SubSeq(s, i + 1, Len(s)), sep)

(***************************************************************************)
(* Dates and the datetime accessors of Roll-Up.                            *)
(*                                                                         *)
(* A cell of order_date as the query returns it is [raw |-> <<y, m, d>>];  *)
(* pd.to_datetime turns it into the timestamp [ts |-> <<y, m, d>>].        *)
(***************************************************************************)
RawDate(y, m, d) == [raw |-> <<y, m, d>>]
Timestamp(y, m, d) == [ts |-> <<y, m, d>>]

\* pd.to_datetime of a column of dates
ToDatetimeCell(v) == IF "ts" \in DOMAIN v THEN v ELSE Timestamp(v.raw[1], v.raw[2], v.raw[3])

DtYear(t) == t.ts[1]
DtMonth(t) == t.ts[2]
DtDay(t) == t.ts[3]
\* .dt.quarter
DtQuarter(t) == ((t.ts[2] - 1) \div 3) + 1
\* .dt.strftime('%Y-%m')
StrfYearMonth(t) == Str(DtYear(t)) \o <<ChDash>> \o Pad2(DtMonth(t))
\* .dt.strftime('%Y-%m-%d')
StrfDate(t) == StrfYearMonth(t) \o <<ChDash>> \o Pad2(DtDay(t))
\* year.astype(str) + ' Q' + quarter.astype(str)
YearQuarterLabel(year, quarter) == Str(year) \o <<ChSpace, ChQ>> \o Str(quarter)

\* pd.to_datetime of a string: 'YYYY-MM-DD', or the quarter form 'YYYY-Qq',
\* which pandas resolves to the first day of the quarter
ToDatetimeStr(s) ==
    LET parts == Split(s, ChDash)
    IN  IF Len(parts) = 2 /\ Len(parts[2]) = 2 /\ parts[2][1] = ChQ
        THEN Timestamp(Num(parts[1]), 3 * (Num(Tail(parts[2])) - 1) + 1, 1)
        ELSE Timestamp(Num(parts[1]), Num(parts[2]), Num(parts[3]))

\* the order of timestamps
TsLess(a, b) == LexLess(a.ts, b.ts)

(***************************************************************************)
(* Tables and the DataFrame primitives the routines call.                  *)
(***************************************************************************)
\* alphabetical (code point) order of the dimension member names
Alphabet ==
    <<"Ann", "Berlin", "Bob", "Bonn", "Boston", "DE", "FR", "Kim", "Lee",
      "Paris", "SUV", "Sedan", "US">>
NameRank(v) == CHOOSE i \in DOMAIN Alphabet : Alphabet[i] = v

\* the sort code of a cell of column c: groupby sorts its keys
SortCode(c, v) ==
    IF c \in {"year_month", "year_quarter"} THEN v
    ELSE IF c = "year" THEN <<v>>
    ELSE <<NameRank(v)>>

RECURSIVE KeyCode(_, _)
\* by: the sequence of grouping columns, key: the tuple of their values
KeyCode(by, key) ==
    IF by = <<>> THEN <<>>
    ELSE SortCode(Head(by), Head(key)) \o KeyCode(Tail(by), Tail(key))

KeyOf(row, by) == [i \in DOMAIN by |-> row[by[i]]]

\* mutant: the rows are matched on the first key column only
RowsWithFirstKey(t, by, key) == SelectSeq(t.rows, LAMBDA r : r[by[1]] = key[1])

\* df[df key columns == key]: the rows having the key, in table order
RowsWithKey(t, by, key) == SelectSeq(t.rows, LAMBDA r : KeyOf(r, by) = key)

\* the distinct keys of the table, sorted (groupby's sort=True)
GroupKeys(t, by) ==
    LET K == {KeyOf(r, by) : r \in Range(t.rows)}
    IN  [i \in 1..Cardinality(K) |->
            CHOOSE k \in K :
                Cardinality({j \in K : LexLess(KeyCode(by, j), KeyCode(by, k))}) = i - 1]

\* the values of column c down the rows
Column(rows, c) == [i \in DOMAIN rows |-> rows[i][c]]

\* df.groupby(by).agg({sums: 'sum', counts: 'count'}).reset_index()
GroupAgg(t, by, sums, counts) ==
    LET keys == GroupKeys(t, by)
        Pos(c) == CHOOSE i \in DOMAIN by : by[i] = c
        cols == Range(by) \cup sums \cup counts
    IN  [columns |-> cols,
         rows |-> [i \in DOMAIN keys |->
            LET grp == RowsWithKey(t, by, keys[i])
            IN  [c \in cols |->
                    IF c \in Range(by) THEN keys[i][Pos(c)]
                    ELSE IF c \in sums THEN SumSeq(Column(grp, c))
                    ELSE Len(grp)]]]

\* df[c] = vals: add or replace a column
WithColumn(t, c, vals) ==
    [columns |-> t.columns \cup {c},
     rows |-> [i \in DOMAIN t.rows |->
        [k \in t.columns \cup {c} |-> IF k = c THEN vals[i] ELSE t.rows[i][k]]]]

\* df.sort_values(c) on a column of timestamps, ascending
SortByTimestamp(t, c) ==
    LET n == Len(t.rows)
        Before(j, i) ==
            \/ TsLess(t.rows[j][c], t.rows[i][c])
            \/ t.rows[j][c] = t.rows[i][c] /\ j < i
        At(k) == CHOOSE i \in 1..n : Cardinality({j \in 1..n : Before(j, i)}) = k - 1
    IN  [t EXCEPT !.rows = [k \in 1..n |-> t.rows[At(k)]]]

\* the first n rows by descending c, rows of equal c in table order
StableLargest(t, n, c) ==
    LET len == Len(t.rows)
        Before(j, i) ==
            \/ t.rows[j][c] > t.rows[i][c]
            \/ t.rows[j][c] = t.rows[i][c] /\ j < i
        At(k) == CHOOSE i \in 1..len : Cardinality({j \in 1..len : Before(j, i)}) = k - 1
        m == IF n < len THEN n ELSE len
    IN  [t EXCEPT !.rows = [k \in 1..m |-> t.rows[At(k)]]]

RECURSIVE DescendingIndexOrders(_, _, _)
\* every order of the row numbers in S in which column c does not increase
DescendingIndexOrders(rows, c, S) ==
    IF S = {} THEN {<<>>}
    ELSE LET top == {i \in S : \A j \in S : rows[j][c] <= rows[i][c]}
         IN  UNION {{<<i>> \o p : p \in DescendingIndexOrders(rows, c, S \ {i})} : i \in top}

\* every arrangement of all the rows in which c does not increase
DescendingOrders(t, c) ==
    {[t EXCEPT !.rows = [k \in DOMAIN p |-> t.rows[p[k]]]] :
        p \in DescendingIndexOrders(t.rows, c, DOMAIN t.rows)}

(***************************************************************************)
(* df.nlargest(n, c), keep='first'.  pandas (core/methods/selectn.py)      *)
(* selects with a stable argsort only when n < len(df).  When n >= len(df) *)
(* it returns df[c].sort_values(ascending=False).head(n), and sort_values  *)
(* sorts with its default kind, quicksort, which is not stable: the order  *)
(* among rows of equal c is then whatever the sort of the build yields.    *)
(* The result is therefore a set of possible tables.                       *)
(***************************************************************************)
NLargest(t, n, c) ==
    IF n >= Len(t.rows) THEN DescendingOrders(t, c) ELSE {StableLargest(t, n, c)}

(***************************************************************************)
(* The warehouse.  The fact query joins each order with its car, customer  *)
(* and employee.  A warehouse holds orders of Orders, each with a revenue  *)
(* in 1..MaxRev: either at most MaxOrders orders, or all of them at        *)
(* revenue 1 but for at most MaxOrders, which are absent or have another   *)
(* revenue.  Columns of the query that no routine reads (total_sum_eur,    *)
(* model_name, car_status, car_price, cus_bus_name) are left out.          *)
(***************************************************************************)
Order(no, date, qty, country, city, category, first, last) ==
    [order_number |-> no, order_date |-> date, quantity |-> qty,
     country_name |-> country, city_name |-> city, category_name |-> category,
     employee_first_name |-> first, employee_last_name |-> last]

Orders ==
    << Order(1, RawDate(2022, 11, 30), 1, "DE", "Berlin", "SUV", "Ann", "Lee"),
       Order(2, RawDate(2022, 12, 1), 2, "DE", "Bonn", "Sedan", "Ann", "Kim"),
       Order(3, RawDate(2023, 2, 10), 1, "FR", "Paris", "SUV", "Bob", "Lee"),
       Order(4, RawDate(2023, 2, 28), 3, "FR", "Paris", "Sedan", "Bob", "Kim"),
       Order(5, RawDate(2023, 10, 5), 2, "US", "Paris", "SUV", "Ann", "Kim"),
       Order(6, RawDate(2024, 1, 1), 1, "US", "Boston", "Sedan", "Ann", "Lee"),
       Order(7, RawDate(2023, 3, 31), 2, "DE", "Bonn", "SUV", "Bob", "Lee") >>

FactColumns ==
    {"order_number", "order_date", "quantity", "total_sum_usd", "category_name",
     "city_name", "country_name", "employee_first_name", "employee_last_name"}

\* the result of the fact query over the orders with a revenue in rev
FactTable(rev) ==
    LET all == [i \in DOMAIN Orders |->
                   [c \in FactColumns |->
                       IF c = "total_sum_usd" THEN rev[i] ELSE Orders[i][c]]]
    IN  [columns |-> FactColumns,
         rows |-> SelectSeq(all, LAMBDA r : r.total_sum_usd > 0)]

\* a dimension query: the distinct members the orders refer to
DimTable(by) == GroupAgg(FactTable([i \in DOMAIN Orders |-> 1]), by, {}, {})

DimCars == DimTable(<<"category_name">>)
DimCustomers == DimTable(<<"country_name", "city_name">>)
DimEmployees == DimTable(<<"employee_first_name", "employee_last_name">>)

\* the warehouse whose orders have the revenues rev (0: the order is absent)
Warehouse(rev) ==
    [cars |-> DimCars, customers |-> DimCustomers, employees |-> DimEmployees,
     sales |-> FactTable(rev)]

\* the orders whose revenue is not v
Deviating(rev, v) == {i \in DOMAIN rev : rev[i] # v}

Revenues ==
    {rev \in [DOMAIN Orders -> 0..MaxRev] :
        \/ Cardinality(Deviating(rev, 0)) <= MaxOrders
        \/ Cardinality(Deviating(rev, 1)) <= MaxOrders}

Warehouses == {Warehouse(rev) : rev \in Revenues}

(***************************************************************************)
(* The environment of a page load: which call of the loader fails, and     *)
(* which step of the selected routine raises.                              *)
(*   failAt:  0 none, 1 create_engine, 2..5 the four queries in order      *)
(*   faultAt: 0 none, k the k-th step of the routine raises                *)
(***************************************************************************)
Queries == <<"cars", "customers", "employees", "sales">>
FailPoints == 0..(Len(Queries) + 1)

Operations == {"Dicing", "Drill-Down", "Roll-Up", "Slicing"}
TimePeriods == {"Monthly", "Quarterly", "Yearly"}


(***************************************************************************)
(* The routines.  A routine is the sequence of its steps that compute on   *)
(* or render the data; a step is what it displays, the tables it binds,    *)
(* and fact_sales as the step leaves it.                                   *)
(***************************************************************************)
Step(show, put, fs) == [show |-> show, put |-> put, fs |-> fs]
Nothing == [n \in {} |-> None]

Measures == {"total_sum_usd", "quantity"}

\* mutant: percentRoot, the share of the grand total, in place of percentParent
PercentRoot(ccs) ==
    LET all == SumSeq(Column(ccs.rows, "total_sum_usd"))
    IN  WithColumn(ccs, "percentParent",
            [i \in DOMAIN ccs.rows |->
                (2000 * ccs.rows[i].total_sum_usd + all) \div (2 * all)])

\* percentParent of the treemap leaves, formatted '.1%': px.treemap sums the
\* values of each country's leaves into the country node, and a leaf's
\* percentParent is its value over its parent's; the unit is 0.1 %
PercentParent(ccs) ==
    LET parents == GroupAgg(ccs, <<"country_name">>, {"total_sum_usd"}, {})
        Parent(r) == CHOOSE q \in Range(parents.rows) : q.country_name = r.country_name
    IN  WithColumn(ccs, "percentParent",
            [i \in DOMAIN ccs.rows |->
                (2000 * ccs.rows[i].total_sum_usd + Parent(ccs.rows[i]).total_sum_usd)
                    \div (2 * Parent(ccs.rows[i]).total_sum_usd)])

\* country_category_sales
CountryCategorySales(fs) ==
    GroupAgg(fs, <<"country_name", "category_name">>, Measures, {})

\* operation == "Dicing"; top is the table nlargest returns
DicingSteps(fs, top) ==
    LET ccs == CountryCategorySales(fs)
    IN  << Step(<<>>, "country_category_sales" :> ccs, fs),
           Step(<<>>, "treemap" :> PercentParent(ccs), fs),
           Step(<<>>, "country_totals" :>
                        GroupAgg(ccs, <<"country_name">>, {"total_sum_usd"}, {}), fs),
           Step(<<"plotly_chart: treemap">>, Nothing, fs),
           Step(<<"dataframe: country_category_sales">>, Nothing, fs),
           Step(<<>>, "top_combinations" :> top, fs),
           Step(<<"metrics: top_combinations">>, Nothing, fs) >>

\* operation == "Drill-Down"
DrillDownSteps(fs) ==
    << Step(<<>>, "country_sales" :>
                    GroupAgg(fs, <<"country_name">>, {"total_sum_usd"}, {}), fs),
       Step(<<>>, "city_sales" :>
                    GroupAgg(fs, <<"country_name", "city_name">>, {"total_sum_usd"}, {}), fs),
       Step(<<"plotly_chart: sunburst">>, Nothing, fs),
       Step(<<"dataframe: country_sales">>, Nothing, fs),
       Step(<<"dataframe: city_sales">>, Nothing, fs) >>

\* mutant: the conversion also truncates the dates to their month
ConvertOrderDateToMonth(fs) ==
    WithColumn(fs, "order_date",
        [i \in DOMAIN fs.rows |->
            Timestamp(ToDatetimeCell(fs.rows[i].order_date).ts[1],
                      ToDatetimeCell(fs.rows[i].order_date).ts[2], 1)])

\* fact_sales['order_date'] = pd.to_datetime(fact_sales['order_date'])
ConvertOrderDate(fs) ==
    WithColumn(fs, "order_date",
        [i \in DOMAIN fs.rows |-> ToDatetimeCell(fs.rows[i].order_date)])

\* the derived columns, added to fact_sales itself
DeriveColumns(fs) ==
    LET D(i) == fs.rows[i].order_date
        One(t, c, F(_)) == WithColumn(t, c, [i \in DOMAIN fs.rows |-> F(D(i))])
        t1 == One(fs, "year", DtYear)
        t2 == One(t1, "quarter", DtQuarter)
        t3 == One(t2, "month", DtMonth)
        t4 == One(t3, "day", DtDay)
        t5 == WithColumn(t4, "year_quarter",
                [i \in DOMAIN fs.rows |->
                    YearQuarterLabel(t4.rows[i].year, t4.rows[i].quarter)])
        t6 == One(t5, "year_month", StrfYearMonth)
    IN  One(t6, "date", StrfDate)

\* the column grouped by, and the text given to pd.to_datetime, per period
PeriodColumn(tp) ==
    CASE tp = "Monthly" -> "year_month"
      [] tp = "Quarterly" -> "year_quarter"
      [] tp = "Yearly" -> "year"

PeriodText(tp, label) ==
    CASE tp = "Monthly" -> label \o <<ChDash>> \o Pad2(1)
      [] tp = "Quarterly" -> Replace(label, <<ChSpace, ChQ>>, <<ChDash, ChQ>>)
      [] tp = "Yearly" -> Str(label) \o <<ChDash>> \o Pad2(1) \o <<ChDash>> \o Pad2(1)

\* period_data before sorting: the aggregate with its 'period' column
PeriodData(fs, tp) ==
    LET agg == GroupAgg(fs, <<PeriodColumn(tp)>>, Measures, {})
    IN  WithColumn(agg, "period",
            [i \in DOMAIN agg.rows |->
                ToDatetimeStr(PeriodText(tp, agg.rows[i][PeriodColumn(tp)]))])

\* mutant: sort_values('period', ascending=False)
SortPeriodsDescending(pd) ==
    LET up == SortByTimestamp(pd, "period")
    IN  [up EXCEPT !.rows = [k \in DOMAIN up.rows |-> up.rows[Len(up.rows) + 1 - k]]]

\* period_data.sort_values('period')
SortPeriods(pd) == SortByTimestamp(pd, "period")

\* operation == "Roll-Up", inside the try; tp is the radio's value
RollUpSteps(fs, tp) ==
    LET fs1 == ConvertOrderDate(fs)
        fs2 == DeriveColumns(fs1)
    IN  << Step(<<>>, Nothing, fs1),
           Step(<<>>, Nothing, fs2),
           Step(<<"radio: time_period">>, Nothing, fs2),
           Step(<<>>, "period_data" :> PeriodData(fs2, tp), fs2),
           Step(<<>>, "period_data" :> SortPeriods(PeriodData(fs2, tp)), fs2),
           Step(<<"plotly_chart: lines">>, Nothing, fs2),
           Step(<<"dataframe: period_data">>, Nothing, fs2),
           Step(<<"metrics: totals">>, Nothing, fs2) >>

\* mutant: the rows are filtered on the first name only
EmployeeRowsByFirstName(fs, row) ==
    [fs EXCEPT !.rows = SelectSeq(fs.rows, LAMBDA r :
        r.employee_first_name = row.employee_first_name)]

\* the rows of one employee: both names equal
EmployeeRows(fs, row) ==
    [fs EXCEPT !.rows = SelectSeq(fs.rows, LAMBDA r :
        /\ r.employee_first_name = row.employee_first_name
        /\ r.employee_last_name = row.employee_last_name)]

\* employee_categories of one row of top_employees
EmployeeCategories(fs, row) ==
    GroupAgg(EmployeeRows(fs, row), <<"category_name">>, Measures, {})

\* employee_sales with its employee_name column
EmployeeSales(fs) ==
    LET agg == GroupAgg(fs, <<"employee_first_name", "employee_last_name">>,
                        Measures, {"order_number"})
    IN  WithColumn(agg, "employee_name",
            [i \in DOMAIN agg.rows |->
                <<agg.rows[i].employee_first_name, " ", agg.rows[i].employee_last_name>>])

\* operation == "Slicing"; top is the table nlargest returns
SlicingSteps(fs, top) ==
    << Step(<<>>, "employee_sales" :>
                    GroupAgg(fs, <<"employee_first_name", "employee_last_name">>,
                             Measures, {"order_number"}), fs),
       Step(<<>>, "employee_sales" :> EmployeeSales(fs), fs),
       Step(<<>>, "top_employees" :> top, fs),
       Step(<<"plotly_chart: bar">>, Nothing, fs),
       Step(<<"metrics and pie per employee">>,
            "employee_categories" :>
                [tables |-> [i \in DOMAIN top.rows |-> EmployeeCategories(fs, top.rows[i])]],
            fs),
       Step(<<"dataframe: employee ranking">>, Nothing, fs) >>

(***************************************************************************)
(* The loader.                                                             *)
(***************************************************************************)
\* create_db_connection: the engine, or None after displaying the error
CreateDbConnection(e) ==
    IF e.failAt = 1
    THEN [engine |-> None, show |-> <<"error: Error connecting to database">>]
    ELSE [engine |-> [url |-> "postgresql"], show |-> <<>>]

\* the loader's four locals when query number k raises (k = 5: none does):
\* the queries before it have bound theirs
LoaderLocals(db, k) ==
    [i \in DOMAIN Queries |-> IF i < k THEN db[Queries[i]] ELSE None]

\* mutant: the except clause returns the loader's locals as they are
ExceptReturnLocals(locals) == locals

\* the return of the except clause
ExceptReturn(locals) == <<None, None, None, None>>

\* load_data_from_dwh
LoadDataFromDwh(db, e) ==
    LET conn == CreateDbConnection(e)
    IN  IF conn.engine = None
        THEN [ret |-> <<None, None, None, None>>, show |-> conn.show]
        ELSE IF e.failAt = 0
        THEN [ret |-> LoaderLocals(db, Len(Queries) + 1), show |-> <<>>]
        ELSE [ret |-> ExceptReturn(LoaderLocals(db, e.failAt - 1)),
              show |-> <<"error: Error loading data">>]

\* any(x is None for x in [dim_cars, dim_customers, dim_employees, fact_sales])
AnyNone(tables) == \E i \in DOMAIN tables : tables[i] = None

\* mutant: the failure message without the return
AfterFailedLoadNoReturn == "select"

\* where the run goes after the failure message: return
AfterFailedLoad == "done"

(***************************************************************************)
(* The state.                                                              *)
(***************************************************************************)
VARIABLES
    dwh,            \* the warehouse: what the four queries return
    env,            \* the failures of this page load
    pc,             \* idle, load, check, select, dispatch, done, raised
    operation,      \* the selectbox's value
    time_period,    \* the radio's value
    dim_cars, dim_customers, dim_employees, fact_sales,   \* the loaded tables
    out,            \* the tables the routine has bound
    page,           \* what the page displays, in order
    runs,           \* page loads of the session so far
    hist            \* the finished page loads of the session

vars == <<dwh, env, pc, operation, time_period, dim_cars, dim_customers,
          dim_employees, fact_sales, out, page, runs, hist>>

OutNames ==
    {"country_category_sales", "treemap", "country_totals", "top_combinations",
     "country_sales", "city_sales", "period_data", "employee_sales",
     "top_employees", "employee_categories"}

\* the locals of olap_visualization before anything is bound
NoOut == [n \in OutNames |-> None]

\* the steps completed when step k raises (k = 0, or past the end: all)
Completed(steps, k) == IF k \in DOMAIN steps THEN k - 1 ELSE Len(steps)

RECURSIVE Shown(_, _)
Shown(steps, n) == IF n = 0 THEN <<>> ELSE Shown(steps, n - 1) \o steps[n].show

RECURSIVE Bound(_, _, _)
Bound(steps, n, o) == IF n = 0 THEN o ELSE steps[n].put @@ Bound(steps, n - 1, o)

\* mutant: Roll-Up without its try / except
CatchesNothing(op) == FALSE

\* the routine that has a try / except around its steps
Catches(op) == op = "Roll-Up"

\* the failures of one page load: of the loader, or of the routine
FaultPoints == 0..Len(RollUpSteps(FactTable([i \in DOMAIN Orders |-> 0]), "Monthly"))
Calm == [failAt |-> 0, faultAt |-> 0]
Envs == {e \in [failAt : FailPoints, faultAt : FaultPoints] : e.failAt = 0 \/ e.faultAt = 0}

(***************************************************************************)
(* One page load: the script runs olap_visualization once.                 *)
(***************************************************************************)
Init ==
    /\ dwh \in Warehouses
    /\ env \in Envs
    /\ env = Calm \/ Len(dwh.sales.rows) <= FaultRows
    /\ pc = "idle"
    /\ operation = Unset
    /\ time_period = Unset
    /\ dim_cars = None
    /\ dim_customers = None
    /\ dim_employees = None
    /\ fact_sales = None
    /\ out = NoOut
    /\ page = <<>>
    /\ runs = 1
    /\ hist = {}

\* the style block and the title
Begin ==
    /\ pc = "idle"
    /\ page' = <<"title">>
    /\ pc' = "load"
    /\ UNCHANGED <<dwh, env, operation, time_period, dim_cars, dim_customers,
                   dim_employees, fact_sales, out, runs, hist>>

\* dim_cars, dim_customers, dim_employees, fact_sales = load_data_from_dwh()
LoadData ==
    /\ pc = "load"
    /\ LET r == LoadDataFromDwh(dwh, env)
       IN  /\ dim_cars' = r.ret[1]
           /\ dim_customers' = r.ret[2]
           /\ dim_employees' = r.ret[3]
           /\ fact_sales' = r.ret[4]
           /\ page' = page \o r.show
    /\ pc' = "check"
    /\ UNCHANGED <<dwh, env, operation, time_period, out, runs, hist>>

\* if any(... is None ...): st.error(...); return
CheckLoaded ==
    /\ pc = "check"
    /\ IF AnyNone(<<dim_cars, dim_customers, dim_employees, fact_sales>>)
       THEN /\ page' = page \o <<"error: Failed to load data">>
            /\ pc' = AfterFailedLoad
       ELSE /\ page' = page \o <<"sidebar">>
            /\ pc' = "select"
    /\ UNCHANGED <<dwh, env, operation, time_period, dim_cars, dim_customers,
                   dim_employees, fact_sales, out, runs, hist>>

\* operation = st.sidebar.selectbox(...)
Select(op) ==
    /\ pc = "select"
    /\ operation' = op
    /\ pc' = "dispatch"
    /\ UNCHANGED <<dwh, env, time_period, dim_cars, dim_customers, dim_employees,
                   fact_sales, out, page, runs, hist>>

\* the selected routine: its header, then its steps up to the one that raises
Routine(op, steps) ==
    LET n == Completed(steps, env.faultAt)
        raised == env.faultAt \in DOMAIN steps
    IN  /\ pc = "dispatch"
        /\ operation = op
        /\ page' = page \o <<"header: " \o op>> \o Shown(steps, n)
                    \o (IF raised /\ Catches(op)
                        THEN <<"error: Error in " \o op \o " operation">> ELSE <<>>)
        /\ out' = Bound(steps, n, out)
        /\ fact_sales' = IF n = 0 THEN fact_sales ELSE steps[n].fs
        /\ pc' = IF raised /\ ~Catches(op) THEN "raised" ELSE "done"
        /\ UNCHANGED <<dwh, env, operation, dim_cars, dim_customers, dim_employees,
                       runs, hist>>

Dicing ==
    /\ pc = "dispatch" /\ operation = "Dicing"
    /\ \E top \in NLargest(CountryCategorySales(fact_sales), TopDice, "total_sum_usd") :
            Routine("Dicing", DicingSteps(fact_sales, top))
    /\ UNCHANGED time_period

DrillDown ==
    /\ Routine("Drill-Down", DrillDownSteps(fact_sales))
    /\ UNCHANGED time_period

RollUp(tp) ==
    /\ pc = "dispatch" /\ operation = "Roll-Up"
    /\ LET steps == RollUpSteps(fact_sales, tp)
       IN  /\ Routine("Roll-Up", steps)
           /\ time_period' = IF Completed(steps, env.faultAt) >= 3 THEN tp ELSE time_period

Slicing ==
    /\ pc = "dispatch" /\ operation = "Slicing"
    /\ \E top \in NLargest(EmployeeSales(fact_sales), TopSlice, "total_sum_usd") :
            Routine("Slicing", SlicingSteps(fact_sales, top))
    /\ UNCHANGED time_period

Next ==
    \/ Begin
    \/ LoadData
    \/ CheckLoaded
    \/ \E op \in Operations : Select(op)
    \/ Dicing
    \/ DrillDown
    \/ \E tp \in TimePeriods : RollUp(tp)
    \/ Slicing

Spec == Init /\ [][Next]_vars

(***************************************************************************)
(* A session: the framework runs the script again on every interaction.    *)
(* Each run starts with nothing bound and an empty page; the warehouse and *)
(* the failures may differ from run to run.                                *)
(***************************************************************************)
SessionWarehouses ==
    { Warehouse([i \in DOMAIN Orders |-> 1]),
      Warehouse([i \in DOMAIN Orders |-> IF i <= 2 THEN 1 ELSE 0]) }

SessionEnvs == {Calm, [failAt |-> 1, faultAt |-> 0]}

\* the tables a run has bound, the order among rows of equal revenue in the
\* nlargest tables (and the breakdowns listed along them) left aside
Unordered(o) ==
    [n \in OutNames |->
        IF o[n] = None THEN None
        ELSE IF n \in {"top_combinations", "top_employees"}
             THEN [columns |-> o[n].columns, rows |-> Range(o[n].rows)]
        ELSE IF n = "employee_categories" THEN [tables |-> Range(o[n].tables)]
        ELSE o[n]]

\* what a run was given, and what it produced
RunInput == [operation |-> operation, time_period |-> time_period, dwh |-> dwh, env |-> env]
RunOutput == [pc |-> pc, page |-> page, out |-> Unordered(out)]

SessionInit ==
    /\ dwh \in SessionWarehouses
    /\ env \in SessionEnvs
    /\ pc = "idle"
    /\ operation = Unset
    /\ time_period = Unset
    /\ dim_cars = None
    /\ dim_customers = None
    /\ dim_employees = None
    /\ fact_sales = None
    /\ out = NoOut
    /\ page = <<>>
    /\ runs = 1
    /\ hist = {}

\* mutant: the tables bound by the last run are kept across runs
RerunKeepsTables ==
    /\ pc \in {"done", "raised"}
    /\ runs < MaxRuns
    /\ runs' = runs + 1
    /\ hist' = hist \cup {[input |-> RunInput, output |-> RunOutput]}
    /\ dwh' \in SessionWarehouses
    /\ env' \in SessionEnvs
    /\ pc' = "idle"
    /\ operation' = Unset
    /\ time_period' = Unset
    /\ dim_cars' = None
    /\ dim_customers' = None
    /\ dim_employees' = None
    /\ fact_sales' = None
    /\ page' = <<>>
    /\ UNCHANGED out

\* the next interaction: the script is run again from the top
Rerun ==
    /\ pc \in {"done", "raised"}
    /\ runs < MaxRuns
    /\ runs' = runs + 1
    /\ hist' = hist \cup {[input |-> RunInput, output |-> RunOutput]}
    /\ dwh' \in SessionWarehouses
    /\ env' \in SessionEnvs
    /\ pc' = "idle"
    /\ operation' = Unset
    /\ time_period' = Unset
    /\ dim_cars' = None
    /\ dim_customers' = None
    /\ dim_employees' = None
    /\ fact_sales' = None
    /\ out' = NoOut
    /\ page' = <<>>

SessionNext ==
    \/ Next
    \/ Rerun

SpecSession == SessionInit /\ [][SessionNext]_vars

(***************************************************************************)
(*                              The claims                                 *)
(***************************************************************************)
Finished == pc \in {"done", "raised"}
Header(op) == "header: " \o op
OnPage(item) == \E i \in DOMAIN page : page[i] = item
LastOnPage(item) == page # <<>> /\ page[Len(page)] = item

\* the number of steps of a routine
NumSteps(op) ==
    LET none == FactTable([i \in DOMAIN Orders |-> 0])
    IN  CASE op = "Dicing" -> Len(DicingSteps(none, none))
          [] op = "Drill-Down" -> Len(DrillDownSteps(none))
          [] op = "Roll-Up" -> Len(RollUpSteps(none, "Monthly"))
          [] op = "Slicing" -> Len(SlicingSteps(none, EmployeeSales(none)))

\* the selected routine has met its failing step
Faulted == operation # Unset /\ env.faultAt \in 1..NumSteps(operation)

\* the sum of column m of the loaded snapshot over the rows whose key is key
RawSum(by, key, m) ==
    SumSeq([i \in DOMAIN dwh.sales.rows |->
               IF KeyOf(fact_sales.rows[i], by) = key THEN dwh.sales.rows[i][m] ELSE 0])

RawKeys(by) == {KeyOf(r, by) : r \in Range(fact_sales.rows)}

\* table t is the aggregate of the fact rows by the key columns by: one row
\* per key of the fact rows, no other row, and each measure the sum over
\* exactly the fact rows of the key
Aggregates(t, by, measures) ==
    t # None =>
        /\ \A i \in DOMAIN t.rows : measures \subseteq DOMAIN t.rows[i]
        /\ \A key \in RawKeys(by) :
              Cardinality({i \in DOMAIN t.rows : KeyOf(t.rows[i], by) = key}) = 1
        /\ \A i \in DOMAIN t.rows :
              /\ KeyOf(t.rows[i], by) \in RawKeys(by)
              /\ \A m \in measures : t.rows[i][m] = RawSum(by, KeyOf(t.rows[i], by), m)

\* C1: when the connection or a query of the loader fails, no operation is
\* ever selected, no routine runs and nothing is aggregated; the run ends
\* right after the failure message.
C1_LoadFailureShortCircuits ==
    env.failAt # 0 =>
        /\ pc \notin {"select", "dispatch", "raised"}
        /\ operation = Unset
        /\ out = NoOut
        /\ \A op \in Operations : ~OnPage(Header(op))
        /\ pc = "done" => LastOnPage("error: Failed to load data")

C1_Witness ==
    /\ env.failAt = 5
    /\ pc = "done"
    /\ LastOnPage("error: Failed to load data")

\* C8: the loader returns the four tables of the warehouse or four None, never
\* a mixture; it returns four None whenever the engine or a query fails.
C8_UniformFailureSignal ==
    LET ret == <<dim_cars, dim_customers, dim_employees, fact_sales>>
    IN  /\ pc \notin {"idle", "load"} =>
              \/ \A i \in DOMAIN ret : ret[i] = None
              \/ \A i \in DOMAIN ret : ret[i] # None
        /\ pc = "check" =>
              IF env.failAt # 0
              THEN \A i \in DOMAIN ret : ret[i] = None
              ELSE \A i \in DOMAIN ret : ret[i] = dwh[Queries[i]]

C8_Witness ==
    /\ pc = "check"
    /\ env.failAt = 4
    /\ fact_sales = None /\ dim_cars = None

\* C5: a step of Roll-Up that raises is caught there: the error message is
\* the last thing displayed, no later step of Roll-Up has displayed or bound
\* anything, and the run ends normally; a step of Dicing, Drill-Down or
\* Slicing that raises ends the run with the exception.
C5_OnlyRollUpCatches ==
    Finished /\ operation # Unset =>
        /\ pc = "raised" <=> Faulted /\ operation # "Roll-Up"
        /\ \A op \in Operations :
              OnPage("error: Error in " \o op \o " operation")
                  <=> Faulted /\ operation = "Roll-Up" /\ op = "Roll-Up"
        /\ Faulted /\ operation = "Roll-Up" =>
              /\ pc = "done"
              /\ LastOnPage("error: Error in Roll-Up operation")
              /\ OnPage("radio: time_period") <=> env.faultAt > 3
              /\ out.period_data # None <=> env.faultAt > 4
              /\ OnPage("plotly_chart: lines") <=> env.faultAt > 6
              /\ OnPage("dataframe: period_data") <=> env.faultAt > 7
              /\ ~OnPage("metrics: totals")

C5_Witness ==
    /\ pc = "done"
    /\ operation = "Roll-Up"
    /\ env.faultAt = 6
    /\ LastOnPage("error: Error in Roll-Up operation")
    /\ out.period_data # None

\* C6 as claimed: no operation changes the rows, the columns or a cell of the
\* fact table it was given.
C6_FactTableNeverChanges ==
    fact_sales # None => fact_sales = dwh.sales

DerivedColumns == {"year", "quarter", "month", "day", "year_quarter", "year_month", "date"}

\* C6 as amended: Dicing, Drill-Down and Slicing leave the fact table as it
\* was loaded; Roll-Up keeps the rows, their order and every cell of the
\* loaded columns but order_date, which it converts to timestamps of the same
\* dates, and adds its derived columns to the table.
C6_OnlyRollUpExtendsFactTable ==
    fact_sales # None =>
        /\ operation # "Roll-Up" => fact_sales = dwh.sales
        /\ DOMAIN fact_sales.rows = DOMAIN dwh.sales.rows
        /\ FactColumns \subseteq fact_sales.columns
        /\ fact_sales.columns \ FactColumns \in {{}, DerivedColumns}
        /\ \A i \in DOMAIN fact_sales.rows :
              /\ DOMAIN fact_sales.rows[i] = fact_sales.columns
              /\ \A c \in FactColumns \ {"order_date"} :
                    fact_sales.rows[i][c] = dwh.sales.rows[i][c]
              /\ ToDatetimeCell(fact_sales.rows[i].order_date)
                    = ToDatetimeCell(dwh.sales.rows[i].order_date)
        /\ Finished /\ operation = "Roll-Up" /\ env.faultAt \notin {1, 2} =>
              /\ fact_sales.columns = FactColumns \cup DerivedColumns
              /\ \A i \in DOMAIN fact_sales.rows : "ts" \in DOMAIN fact_sales.rows[i].order_date

C6_Witness ==
    /\ pc = "done"
    /\ operation = "Roll-Up"
    /\ fact_sales # None
    /\ Len(fact_sales.rows) >= 2
    /\ fact_sales.columns = FactColumns \cup DerivedColumns
    /\ fact_sales # dwh.sales

BothMeasures == {"total_sum_usd", "quantity"}

\* C2 as claimed: every aggregated table of the four operations holds, per
\* key of the fact rows, exactly one row with the revenue sum and the quantity
\* sum of the fact rows of that key.
C2_AllAggregatesSumBothMeasures ==
    fact_sales # None =>
        /\ Aggregates(out.country_category_sales, <<"country_name", "category_name">>, BothMeasures)
        /\ Aggregates(out.country_sales, <<"country_name">>, BothMeasures)
        /\ Aggregates(out.city_sales, <<"country_name", "city_name">>, BothMeasures)
        /\ time_period # Unset => Aggregates(out.period_data, <<PeriodColumn(time_period)>>, BothMeasures)
        /\ Aggregates(out.employee_sales, <<"employee_first_name", "employee_last_name">>, BothMeasures)

\* C2 as amended: the same, but the two tables of Drill-Down hold the revenue
\* sum only.
C2_AggregatesEqualRawSums ==
    fact_sales # None =>
        /\ Aggregates(out.country_category_sales, <<"country_name", "category_name">>, BothMeasures)
        /\ Aggregates(out.country_sales, <<"country_name">>, {"total_sum_usd"})
        /\ out.country_sales # None => "quantity" \notin out.country_sales.columns
        /\ Aggregates(out.city_sales, <<"country_name", "city_name">>, {"total_sum_usd"})
        /\ out.city_sales # None => "quantity" \notin out.city_sales.columns
        /\ time_period # Unset => Aggregates(out.period_data, <<PeriodColumn(time_period)>>, BothMeasures)
        /\ Aggregates(out.employee_sales, <<"employee_first_name", "employee_last_name">>, BothMeasures)

C2_Witness ==
    /\ pc = "done"
    /\ out.city_sales # None
    /\ Len(out.city_sales.rows) >= 2
    /\ \E i \in DOMAIN out.city_sales.rows :
          Len(RowsWithKey(dwh.sales, <<"country_name", "city_name">>,
                          KeyOf(out.city_sales.rows[i], <<"country_name", "city_name">>))) >= 2

\* the row number of row r in table t
RowNumber(t, r) == CHOOSE i \in DOMAIN t.rows : t.rows[i] = r

\* top is the top n of agg by revenue, rows of equal revenue in agg's order
TopByInputOrder(top, agg, n) ==
    LET At(k) == RowNumber(agg, top.rows[k])
        taken == {At(k) : k \in DOMAIN top.rows}
        Rev(i) == agg.rows[i].total_sum_usd
    IN  /\ Len(top.rows) = IF n < Len(agg.rows) THEN n ELSE Len(agg.rows)
        /\ \A k \in DOMAIN top.rows : top.rows[k] \in Range(agg.rows)
        /\ Cardinality(taken) = Len(top.rows)
        /\ \A k \in 1..(Len(top.rows) - 1) :
              \/ Rev(At(k)) > Rev(At(k + 1))
              \/ Rev(At(k)) = Rev(At(k + 1)) /\ At(k) < At(k + 1)
        /\ \A j \in DOMAIN agg.rows \ taken : \A i \in taken :
              \/ Rev(j) < Rev(i)
              \/ Rev(j) = Rev(i) /\ i < j

Calendar(i) == dwh.sales.rows[i].order_date.raw

\* the fact rows aggregated into row k of period_data
PeriodMembers(k) ==
    {i \in DOMAIN fact_sales.rows :
        fact_sales.rows[i][PeriodColumn(time_period)]
            = out.period_data.rows[k][PeriodColumn(time_period)]}

\* Roll-Up has sorted period_data
Sorted == Finished /\ operation = "Roll-Up" /\ env.faultAt \notin 1..5

\* C4: after the sort the rows of period_data are in strictly increasing
\* order of time: every order of a row is dated before every order of the
\* next row, each order is in one row, and 'period' increases with the rows.
C4_PeriodsChronological ==
    Sorted =>
        LET pd == out.period_data
        IN  /\ \A i \in DOMAIN fact_sales.rows : \E k \in DOMAIN pd.rows : i \in PeriodMembers(k)
            /\ \A k \in DOMAIN pd.rows : PeriodMembers(k) # {}
            /\ \A k \in 1..(Len(pd.rows) - 1) :
                  /\ TsLess(pd.rows[k].period, pd.rows[k + 1].period)
                  /\ \A i \in PeriodMembers(k), j \in PeriodMembers(k + 1) :
                        LexLess(Calendar(i), Calendar(j))
            /\ \A k \in DOMAIN pd.rows : \A i \in PeriodMembers(k) :
                  ~LexLess(Calendar(i), pd.rows[k].period.ts)

C4_Witness ==
    /\ Sorted
    /\ time_period = "Quarterly"
    /\ Len(out.period_data.rows) >= 3
    /\ \E k \in DOMAIN out.period_data.rows : Cardinality(PeriodMembers(k)) >= 2

\* C9: in the Dice output the shares of a country's categories add up to
\* 100 % within the rounding to 0.1 % of each, and the per-country total is the
\* sum of that country's rows, which is the sum of its fact rows.
C9_SharesSumToWhole ==
    out.treemap # None =>
        \A c \in {r.country_name : r \in Range(out.treemap.rows)} :
            LET mine == SelectSeq(out.treemap.rows, LAMBDA r : r.country_name = c)
                total == SumSeq(Column(mine, "total_sum_usd"))
                shares == SumSeq(Column(mine, "percentParent"))
            IN  /\ 2 * shares <= 2000 + Len(mine)
                /\ 2 * shares >= 2000 - Len(mine)
                /\ \A i \in DOMAIN mine :
                      /\ 2 * mine[i].percentParent * total <= 2000 * mine[i].total_sum_usd + total
                      /\ 2 * mine[i].percentParent * total >= 2000 * mine[i].total_sum_usd - total
                /\ total = RawSum(<<"country_name">>, <<c>>, "total_sum_usd")
                /\ out.country_totals # None =>
                      \E q \in Range(out.country_totals.rows) :
                          q.country_name = c /\ q.total_sum_usd = total

C9_Witness ==
    /\ pc = "done"
    /\ out.treemap # None
    /\ out.country_totals # None
    /\ Cardinality({r.country_name : r \in Range(out.treemap.rows)}) >= 2
    /\ \E r \in Range(out.treemap.rows) : r.percentParent = 333

\* C10: the breakdown of each top employee is computed over exactly the fact
\* rows of that first and last name: a row per category of theirs with the
\* sums of those rows, so that the category revenues and quantities add up to
\* the employee's totals.
C10_BreakdownOfOwnRows ==
    out.employee_categories # None =>
        /\ Len(out.employee_categories.tables) = Len(out.top_employees.rows)
        /\ \A k \in DOMAIN out.top_employees.rows :
              LET emp == out.top_employees.rows[k]
                  cats == out.employee_categories.tables[k]
                  key(cat) == <<emp.employee_first_name, emp.employee_last_name, cat>>
                  by == <<"employee_first_name", "employee_last_name", "category_name">>
              IN  /\ \A m \in BothMeasures : SumSeq(Column(cats.rows, m)) = emp[m]
                  /\ \A i \in DOMAIN cats.rows : \A m \in BothMeasures :
                        cats.rows[i][m] = RawSum(by, key(cats.rows[i].category_name), m)
                  /\ {key(r.category_name) : r \in Range(cats.rows)}
                        = {q \in RawKeys(by) : q[1] = emp.employee_first_name
                                               /\ q[2] = emp.employee_last_name}
                  /\ Cardinality({r.category_name : r \in Range(cats.rows)}) = Len(cats.rows)

C10_Witness ==
    /\ pc = "done"
    /\ out.employee_categories # None
    /\ \E k, j \in DOMAIN out.top_employees.rows :
          /\ Len(out.employee_categories.tables[k].rows) = 2
          /\ j # k
          /\ out.top_employees.rows[j].employee_first_name
                = out.top_employees.rows[k].employee_first_name

=============================================================================
